---- MODULE Spec2Model ----
(***************************************************************************)
(* Model of the email-triage agent: summary generation, summary storage,   *)
(* reply-command intake (parse, resolve, execute, confirm) and the         *)
(* sequence of agent runs.                                                 *)
(***************************************************************************)
EXTENDS Integers, Sequences, FiniteSets, TLC

\* ------------------------------------------------------------------ bounds
MaxCmds == 2        \* commands the model returns for one reply / one batch
MaxReplies == 2     \* replies one search returns
MaxEmails == 2      \* messages one fetch returns
MaxRuns == 3        \* agent runs (process invocations)

\* ------------------------------------------------------- JavaScript values
Undefined == "<undefined>"
Falsy(x) == x \in {Undefined, ""}
OrElse(x, d) == IF Falsy(x) THEN d ELSE x
Prop(o, k) == IF k \in DOMAIN o THEN o[k] ELSE Undefined
Missing(o, k) == k \notin DOMAIN o

SeqsUpTo(S, n) == UNION {[1..k -> S] : k \in 0..n}

\* ------------------------------------------------------------- Command.ts
CommandType ==
  {"reply", "forward", "archive", "delete", "mark_read", "mark_unread",
   "star", "unstar", "label"}

\* ---------------------------------------------------------------- Email.ts
padStart3(s) == IF Len(s) >= 3 THEN s ELSE SubSeq("000", 1, 3 - Len(s)) \o s
\* generateReferenceId numbering from zero.
generateReferenceId_ZeroBased(index) == "EMAIL-" \o padStart3(ToString(index))
generateReferenceId(index) == "EMAIL-" \o padStart3(ToString(index + 1))

\* --------------------------------------------------------- Mailbox Gateway
\* One record per request the GmailClient sends to the provider.
Call(api, id, ok) == [api |-> api, id |-> id, ok |-> ok]
StateChanging ==
  {"messages.send", "messages.modify", "messages.trash", "labels.create"}

\* String.prototype.toLowerCase, on the letters label names are made of.
LowerChar(c) ==
  CASE c = "A" -> "a" [] c = "E" -> "e" [] c = "L" -> "l" [] c = "R" -> "r"
    [] c = "T" -> "t" [] c = "W" -> "w" [] OTHER -> c
RECURSIVE toLowerCase(_)
toLowerCase(s) ==
  IF s = "" THEN "" ELSE LowerChar(SubSeq(s, 1, 1)) \o toLowerCase(SubSeq(s, 2, Len(s)))

\* addLabel, line 222, comparing the names as they are written.
findLabel_CaseSensitive(labels, labelName) ==
  LET hits == {k \in 1..Len(labels) :
                 "name" \in DOMAIN labels[k] /\ labels[k].name = labelName}
  IN IF hits = {} THEN [found |-> FALSE]
     ELSE [found |-> TRUE,
           label |-> labels[CHOOSE k \in hits : \A j \in hits : k <= j]]

\* addLabel, line 222: labels.find((l) => l.name?.toLowerCase() ===
\* labelName.toLowerCase()).
findLabel(labels, labelName) ==
  LET hits == {k \in 1..Len(labels) :
                 /\ "name" \in DOMAIN labels[k]
                 /\ toLowerCase(labels[k].name) = toLowerCase(labelName)}
  IN IF hits = {} THEN [found |-> FALSE]
     ELSE [found |-> TRUE,
           label |-> labels[CHOOSE k \in hits : \A j \in hits : k <= j]]

\* addLabel, lines 225-235: the label found, or else the label created.
\* gw.labels: what labels.list returns; gw.created: what labels.create
\* returns.
labelOf(command, gw) ==
  LET f == findLabel(gw.labels, command.labelName)
  IN IF f.found THEN f.label ELSE gw.created
addLabelPlan(command, gw) ==
  <<"labels.list">>
    \o (IF findLabel(gw.labels, command.labelName).found
        THEN <<>> ELSE <<"labels.create">>)
    \o (IF Falsy(Prop(labelOf(command, gw), "id"))
        THEN <<>> ELSE <<"messages.modify">>)

\* The requests one command kind makes, in order, when none fails.
\* The requests of executeCommand with the reply sent twice.
GatewayPlan_ReplyTwice(command, gw) ==
  CASE command.type = "reply" ->
         <<"messages.get", "messages.get", "messages.send", "messages.send">>
    [] command.type = "forward" -> <<"messages.get", "messages.send">>
    [] command.type = "delete" -> <<"messages.trash">>
    [] command.type = "label" -> addLabelPlan(command, gw)
    [] OTHER -> <<"messages.modify">>

GatewayPlan(command, gw) ==
  LET id == command.targetGmailId IN
  CASE command.type = "reply" ->
         <<"messages.get", "messages.get", "messages.send">>
    [] command.type = "forward" -> <<"messages.get", "messages.send">>
    [] command.type = "delete" -> <<"messages.trash">>
    [] command.type = "label" -> addLabelPlan(command, gw)
    [] OTHER -> <<"messages.modify">>

\* executeCommand, line 136: the subject of a forwarded message.
forwardSubject(subject) == "Fwd: " \o subject

\* gw.failAt = 0: every request succeeds; gw.failAt = k: request k rejects,
\* and the requests after it are never sent.
\* The requests of executeCommand with a rejected request sent once more.
GatewayRun_Retry(command, gw) ==
  LET plan == GatewayPlan(command, gw)
      n == IF gw.failAt = 0 \/ gw.failAt > Len(plan) THEN Len(plan) ELSE gw.failAt
      run == [i \in 1..n |-> [api |-> plan[i], id |-> command.targetGmailId,
                              ok |-> i # gw.failAt, subject |-> gw.subject]]
  IN IF n = gw.failAt THEN Append(run, run[n]) ELSE run

\* A forward records the subject it read (messages.get) and the subject it
\* composed (messages.send); a label command records the labels listed
\* (labels.list), the name it creates (labels.create) and the label id it
\* adds to the message (messages.modify).
GatewayRun(command, gw) ==
  LET plan == GatewayPlan(command, gw)
      n == IF gw.failAt = 0 \/ gw.failAt > Len(plan) THEN Len(plan) ELSE gw.failAt
  IN [i \in 1..n |->
        IF command.type = "forward"
        THEN [api |-> plan[i], id |-> command.targetGmailId,
              ok |-> i # gw.failAt,
              subject |-> IF plan[i] = "messages.get" THEN gw.subject
                          ELSE forwardSubject(gw.subject)]
        ELSE IF command.type = "label"
        THEN [api |-> plan[i], id |-> command.targetGmailId,
              ok |-> i # gw.failAt,
              listed |-> IF plan[i] = "labels.list" THEN gw.labels ELSE <<>>,
              label |-> CASE plan[i] = "labels.create" -> command.labelName
                          [] plan[i] = "messages.modify" -> labelOf(command, gw).id
                          [] OTHER -> Undefined]
        ELSE Call(plan[i], command.targetGmailId, i # gw.failAt)]

\* The subjects of the message a forward fetches.
Subjects == {"hello", "Fwd: hello"}
\* The label lists labels.list returns and the records labels.create
\* returns: a label may lack its name or its id.
LabelLists ==
  {<<>>,
   <<[id |-> "L1", name |-> "Later"]>>,
   <<[id |-> "L1", name |-> "later"]>>,
   <<[id |-> "L2", name |-> "Work"], [id |-> "L1", name |-> "LATER"]>>,
   <<[id |-> "L2", name |-> "Work"]>>,
   <<[name |-> "Later"]>>,
   <<[id |-> "L3"]>>}
\* Of these, the lists in which the name is absent, present, and present
\* on a label without id.
BasicLabelLists ==
  {<<>>, <<[id |-> "L1", name |-> "Later"]>>, <<[name |-> "Later"]>>}
CreatedLabels == {[id |-> "L9", name |-> "Later"], [name |-> "Later"]}
NoLabels == [labels |-> <<>>, created |-> [id |-> "L9", name |-> "Later"]]
GatewayOracles(command, lists) ==
  IF command.type = "label"
  THEN [failAt : 0..3, labels : lists, created : CreatedLabels,
        subject : {"hello"}]
  ELSE [failAt : 0..Len(GatewayPlan(command, NoLabels)),
        labels : {<<>>}, created : {NoLabels.created},
        subject : IF command.type = "forward" THEN Subjects ELSE {"hello"}]

GatewayError(call) == "gateway error: " \o call.api

\* ------------------------------------------------------ CommandHandler.ts
UnresolvedError(command) ==
  "Could not resolve " \o command.targetRef \o " to a Gmail message ID"

\* executeCommand without its try/catch: a rejected request propagates.
executeCommand_NoCatch(command, dry, gw) ==
  IF Falsy(command.targetGmailId)
  THEN [result |-> [command |-> command, success |-> FALSE,
                    error |-> UnresolvedError(command)],
        calls |-> <<>>, thrown |-> FALSE]
  ELSE IF dry
  THEN [result |-> [command |-> command, success |-> TRUE,
                    details |-> "Dry run - no action taken"],
        calls |-> <<>>, thrown |-> FALSE]
  ELSE LET run == GatewayRun(command, gw)
           failed == \E i \in 1..Len(run) : ~run[i].ok
       IN IF failed
          THEN [result |-> [command |-> command, success |-> FALSE,
                            error |-> GatewayError(run[Len(run)])],
                calls |-> run, thrown |-> TRUE]
          ELSE [result |-> [command |-> command, success |-> TRUE],
                calls |-> run, thrown |-> FALSE]

\* executeCommand without its dry-run branch.
executeCommand_NoDryRun(command, dry, gw) ==
  IF Falsy(command.targetGmailId)
  THEN [result |-> [command |-> command, success |-> FALSE,
                    error |-> UnresolvedError(command)],
        calls |-> <<>>, thrown |-> FALSE]
  ELSE LET run == GatewayRun(command, gw)
           failed == \E i \in 1..Len(run) : ~run[i].ok
       IN IF failed
          THEN [result |-> [command |-> command, success |-> FALSE,
                            error |-> GatewayError(run[Len(run)])],
                calls |-> run, thrown |-> FALSE]
          ELSE [result |-> [command |-> command, success |-> TRUE],
                calls |-> run, thrown |-> FALSE]

\* executeCommand without its test of the provider ID.
executeCommand_Unchecked(command, dry, gw) ==
  IF dry
  THEN [result |-> [command |-> command, success |-> TRUE,
                    details |-> "Dry run - no action taken"],
        calls |-> <<>>, thrown |-> FALSE]
  ELSE LET run == GatewayRun(command, gw)
           failed == \E i \in 1..Len(run) : ~run[i].ok
       IN IF failed
          THEN [result |-> [command |-> command, success |-> FALSE,
                            error |-> GatewayError(run[Len(run)])],
                calls |-> run, thrown |-> FALSE]
          ELSE [result |-> [command |-> command, success |-> TRUE],
                calls |-> run, thrown |-> FALSE]

\* executeCommand: the Command Result and the requests it sent.
executeCommand(command, dry, gw) ==
  IF Falsy(command.targetGmailId)
  THEN [result |-> [command |-> command, success |-> FALSE,
                    error |-> UnresolvedError(command)],
        calls |-> <<>>, thrown |-> FALSE]
  ELSE IF dry
  THEN [result |-> [command |-> command, success |-> TRUE,
                    details |-> "Dry run - no action taken"],
        calls |-> <<>>, thrown |-> FALSE]
  ELSE LET run == GatewayRun(command, gw)
           failed == \E i \in 1..Len(run) : ~run[i].ok
       IN IF failed
          THEN [result |-> [command |-> command, success |-> FALSE,
                            error |-> GatewayError(run[Len(run)])],
                calls |-> run, thrown |-> FALSE]
          ELSE [result |-> [command |-> command, success |-> TRUE],
                calls |-> run, thrown |-> FALSE]

\* --------------------------------------------------- JS Map, Object, JSON
\* A Map is its entries in insertion order, keys distinct; an Object is a
\* function from its own property names.
Null == [null |-> TRUE]
MapGet(m, k) ==
  IF \E i \in 1..Len(m) : m[i][1] = k
  THEN m[CHOOSE i \in 1..Len(m) : m[i][1] = k][2]
  ELSE Undefined
MapSet(m, k, v) ==
  IF \E i \in 1..Len(m) : m[i][1] = k
  THEN [i \in 1..Len(m) |-> IF m[i][1] = k THEN <<k, v>> ELSE m[i]]
  ELSE Append(m, <<k, v>>)
MapPairs(m) == {m[i] : i \in 1..Len(m)}

ObjectFromEntries(entries) ==
  [k \in {entries[i][1] : i \in 1..Len(entries)} |->
     entries[CHOOSE i \in 1..Len(entries) :
               /\ entries[i][1] = k
               /\ \A j \in (i + 1)..Len(entries) : entries[j][1] # k][2]]
RECURSIVE entriesOf(_, _)
entriesOf(o, keys) ==
  IF keys = {} THEN <<>>
  ELSE LET k == CHOOSE x \in keys : TRUE
       IN <<<<k, o[k]>>>> \o entriesOf(o, keys \ {k})
ObjectEntries(o) == entriesOf(o, DOMAIN o)

\* JSON.stringify leaves out the properties whose value is undefined.
JSONstringify(o) ==
  [valid |-> TRUE,
   doc |-> [k \in {x \in DOMAIN o : x = "emailMappings" \/ o[x] # Undefined}
              |-> o[k]]]
JSONparse(text) ==
  IF text.valid THEN [ok |-> TRUE, value |-> text.doc] ELSE [ok |-> FALSE]

\* Every run and every reply takes one instant of the clock.
Instants == 0..(MaxRuns + MaxReplies)
toISOString(t) == "T" \o ToString(t)
DateFrom(s) == CHOOSE t \in Instants : toISOString(t) = s

\* -------------------------------------------------------------- Summary.ts
\* summaryToStorable testing its optional ids for truthiness.
summaryToStorable_Truthy(summary, threadId, messageId) ==
  LET base == [id |-> summary.id,
               generatedAt |-> toISOString(summary.generatedAt),
               emailMappings |-> ObjectFromEntries(summary.emailMappings)]
      withThread == IF ~Falsy(threadId)
                    THEN base @@ ("threadId" :> threadId) ELSE base
  IN IF ~Falsy(messageId)
     THEN withThread @@ ("messageId" :> messageId) ELSE withThread

summaryToStorable(summary, threadId, messageId) ==
  LET base == [id |-> summary.id,
               generatedAt |-> toISOString(summary.generatedAt),
               emailMappings |-> ObjectFromEntries(summary.emailMappings)]
      withThread == IF threadId # Undefined
                    THEN base @@ ("threadId" :> threadId) ELSE base
  IN IF messageId # Undefined
     THEN withThread @@ ("messageId" :> messageId) ELSE withThread

loadStoredSummary(stored) ==
  LET base == [emailMappings |-> ObjectEntries(stored.emailMappings)]
      withThread == IF Prop(stored, "threadId") # Undefined
                    THEN base @@ ("threadId" :> stored.threadId) ELSE base
  IN IF Prop(stored, "messageId") # Undefined
     THEN withThread @@ ("messageId" :> stored.messageId) ELSE withThread

\* ---------------------------------------------------------- dateUtils.ts
\* The clock counts instants; DayLength instants make a calendar day, and
\* instant 0 falls on September 29th, 2025.
DayLength == 2
Epoch == [year |-> 2025, month |-> 9, day |-> 29]
DaysInMonth(year, month) ==
  CASE month \in {4, 6, 9, 11} -> 30
    [] month = 2 ->
         (IF year % 4 = 0 /\ (year % 100 # 0 \/ year % 400 = 0) THEN 29 ELSE 28)
    [] OTHER -> 31
NextDay(date) ==
  IF date.day < DaysInMonth(date.year, date.month)
  THEN [date EXCEPT !.day = date.day + 1]
  ELSE IF date.month < 12
  THEN [date EXCEPT !.month = date.month + 1, !.day = 1]
  ELSE [year |-> date.year + 1, month |-> 1, day |-> 1]
RECURSIVE DateOfDay(_)
DateOfDay(n) == IF n = 0 THEN Epoch ELSE NextDay(DateOfDay(n - 1))
CalendarDay(t) == t \div DayLength

\* format(date, 'yyyy-MM-dd')
pad2(n) == IF n < 10 THEN "0" \o ToString(n) ELSE ToString(n)
formatDateShort(t) ==
  LET date == DateOfDay(CalendarDay(t))
  IN ToString(date.year) \o "-" \o pad2(date.month) \o "-" \o pad2(date.day)
getSummaryFileName(t) == formatDateShort(t) \o ".json"

\* Strings as JavaScript orders them: by UTF-16 code unit, a proper prefix
\* before the longer string.
CharCode(c) ==
  CASE c = "-" -> 45 [] c = "." -> 46
    [] c = "0" -> 48 [] c = "1" -> 49 [] c = "2" -> 50 [] c = "3" -> 51
    [] c = "4" -> 52 [] c = "5" -> 53 [] c = "6" -> 54 [] c = "7" -> 55
    [] c = "8" -> 56 [] c = "9" -> 57
    [] c = "a" -> 97 [] c = "b" -> 98 [] c = "e" -> 101
    [] c = "j" -> 106 [] c = "k" -> 107 [] c = "n" -> 110 [] c = "o" -> 111
    [] c = "s" -> 115 [] c = "t" -> 116 [] c = "x" -> 120
CharAt(s, i) == SubSeq(s, i, i)
LexLess(a, b) ==
  \/ Len(a) < Len(b) /\ SubSeq(b, 1, Len(a)) = a
  \/ \E i \in 1..Len(a) :
       /\ i <= Len(b)
       /\ SubSeq(a, 1, i - 1) = SubSeq(b, 1, i - 1)
       /\ CharCode(CharAt(a, i)) < CharCode(CharAt(b, i))
endsWith(s, suffix) ==
  Len(s) >= Len(suffix) /\ SubSeq(s, Len(s) - Len(suffix) + 1, Len(s)) = suffix

\* ------------------------------------------------------- SummaryHandler.ts
\* The storage directory is a function from file names to file contents.
\* files.filter((f) => f.endsWith('.json')).sort().reverse()[0], and the
\* same without the reverse.
jsonFilesOf(dir) == {f \in DOMAIN dir : endsWith(f, ".json")}
latestOf_Unreversed(names) ==
  CHOOSE f \in names : \A g \in names : g = f \/ LexLess(f, g)
latestOf(names) ==
  CHOOSE f \in names : \A g \in names : g = f \/ LexLess(g, f)
storeSummary(dir, summary, messageId, t) ==
  LET name == getSummaryFileName(t)
      text == JSONstringify(summaryToStorable(summary, Undefined, messageId))
  IN [f \in DOMAIN dir \cup {name} |-> IF f = name THEN text ELSE dir[f]]

\* loadLatestSummary answering an empty Stored Summary when it finds none.
loadLatestSummary_Default(dir, dirOk) ==
  LET jsonFiles == jsonFilesOf(dir) IN
  IF ~dirOk \/ jsonFiles = {}
  THEN [id |-> "", generatedAt |-> toISOString(0), emailMappings |-> <<>>]
  ELSE LET latest == latestOf(jsonFiles)
           parsed == JSONparse(dir[latest])
       IN IF parsed.ok THEN parsed.value ELSE Null

\* dirOk = FALSE: readdir rejects (the directory does not exist).
loadLatestSummary(dir, dirOk) ==
  LET jsonFiles == jsonFilesOf(dir) IN
  IF ~dirOk \/ jsonFiles = {} THEN Null
  ELSE LET latest == latestOf(jsonFiles)
           parsed == JSONparse(dir[latest])
       IN IF parsed.ok THEN parsed.value ELSE Null

\* ---------------------------------------------------------- ClaudeClient.ts
\* What the language model gives back for one prompt: the request rejects
\* ("api_error"), the text is no JSON ("not_json"), or it is a JSON value.
parseJson(llm) ==
  IF llm.kind = "json" THEN [ok |-> TRUE, value |-> llm.value]
  ELSE IF llm.kind = "not_json"
  THEN [ok |-> FALSE, error |-> "Failed to parse JSON from Claude response"]
  ELSE [ok |-> FALSE, error |-> "Claude API error"]

\* --------------------------------------------------------- CommandParser
\* The mapping of one parsed command without the `|| ''` defaults.
transformOne_NoDefaults(p) ==
  LET base == [targetRef |-> Prop(p, "targetRef")] IN
  CASE p.type = "reply" ->
         base @@ [type |-> "reply", content |-> Prop(p, "content")]
    [] p.type = "forward" ->
         base @@ [type |-> "forward", forwardTo |-> Prop(p, "forwardTo"),
                  note |-> Prop(p, "note")]
    [] p.type = "label" ->
         base @@ [type |-> "label", labelName |-> Prop(p, "labelName")]
    [] OTHER -> base @@ [type |-> p.type]

transformOne(p) ==
  LET base == [targetRef |-> Prop(p, "targetRef")] IN
  CASE p.type = "reply" ->
         base @@ [type |-> "reply", content |-> OrElse(Prop(p, "content"), "")]
    [] p.type = "forward" ->
         base @@ [type |-> "forward",
                  forwardTo |-> OrElse(Prop(p, "forwardTo"), ""),
                  note |-> Prop(p, "note")]
    [] p.type = "label" ->
         base @@ [type |-> "label",
                  labelName |-> OrElse(Prop(p, "labelName"), "")]
    [] OTHER -> base @@ [type |-> p.type]

\* transformCommands dropping the commands whose type it does not know.
transformCommands_SkipUnknown(parsed) ==
  LET known == SelectSeq(parsed, LAMBDA p : p.type \in CommandType)
  IN [ok |-> TRUE, commands |-> [i \in 1..Len(known) |-> transformOne(known[i])]]

transformCommands(parsed) ==
  IF \E i \in 1..Len(parsed) : parsed[i].type \notin CommandType
  THEN LET i == CHOOSE j \in 1..Len(parsed) :
                  /\ parsed[j].type \notin CommandType
                  /\ \A k \in 1..(j - 1) : parsed[k].type \in CommandType
       IN [ok |-> FALSE, error |-> "Unknown command type: " \o parsed[i].type]
  ELSE [ok |-> TRUE, commands |-> [i \in 1..Len(parsed) |-> transformOne(parsed[i])]]

\* Reading a property of undefined: response.commands.map (line 153, into
\* 213), response.unrecognized.length (line 155, the logger is present).
TypeError(property) ==
  "Cannot read properties of undefined (reading '" \o property \o "')"

parseCommands(llm) ==
  LET response == parseJson(llm) IN
  IF ~response.ok THEN response
  ELSE IF Missing(response.value, "commands")
  THEN [ok |-> FALSE, error |-> TypeError("map")]
  ELSE LET t == transformCommands(response.value.commands) IN
       IF ~t.ok THEN t
       ELSE IF Missing(response.value, "unrecognized")
       THEN [ok |-> FALSE, error |-> TypeError("length")]
       ELSE [ok |-> TRUE, commands |-> t.commands,
             unrecognized |-> response.value.unrecognized]

\* The resolver falling back on the first message of the mapping.
resolveCommand_Fallback(cmd, mappings) ==
  [k \in DOMAIN cmd \cup {"targetGmailId"} |->
     IF k = "targetGmailId"
     THEN (IF MapGet(mappings, cmd.targetRef) = Undefined /\ Len(mappings) > 0
           THEN mappings[1][2] ELSE MapGet(mappings, cmd.targetRef))
     ELSE cmd[k]]

\* processReplyCommands, lines 59-62: the resolver.
resolveCommand(cmd, mappings) ==
  [k \in DOMAIN cmd \cup {"targetGmailId"} |->
     IF k = "targetGmailId" THEN MapGet(mappings, cmd.targetRef)
     ELSE cmd[k]]
resolveCommands(cmds, mappings) ==
  [i \in 1..Len(cmds) |-> resolveCommand(cmds[i], mappings)]

\* String.prototype.trim leaving white space in place.
trim_Identity(text) == text
trim(text) == IF text = "  " THEN "" ELSE text

\* ------------------------------------------------------- GmailClient.ts
\* getEmail -> parseMessage: the normalized message of provider message
\* `message`, fetched at position `index` of its batch.
parseMessage(message, index) ==
  [id |-> message.id,
   referenceId |-> generateReferenceId(index),
   from |-> message.from,
   isUnread |-> message.unread]

\* listRecentEmails: position i of the listing keeps its index; a listing
\* entry without an id is skipped.
RECURSIVE listEmailsFrom(_, _)
listEmailsFrom(messages, i) ==
  IF i > Len(messages) THEN <<>>
  ELSE (IF Falsy(messages[i].id) THEN <<>>
        ELSE <<parseMessage(messages[i], i - 1)>>)
       \o listEmailsFrom(messages, i + 1)
listRecentEmails(messages) == listEmailsFrom(messages, 1)

\* searchReplies requests at most this many messages.
MaxSearchResults == 10

\* -------------------------------------------------------- EmailSummarizer.ts
findEmail(emails, referenceId) ==
  IF \E i \in 1..Len(emails) : emails[i].referenceId = referenceId
  THEN LET i == CHOOSE j \in 1..Len(emails) :
                  /\ emails[j].referenceId = referenceId
                  /\ \A k \in 1..(j - 1) : emails[k].referenceId # referenceId
       IN [found |-> TRUE, email |-> emails[i]]
  ELSE [found |-> FALSE]

\* The mapping built only from the unread messages of the batch.
mappingsOf_Unread(emails, i, m) ==
  LET unread == SelectSeq(emails, LAMBDA e : e.isUnread)
  IN m \o [k \in 1..Len(unread) |-> <<unread[k].referenceId, unread[k].id>>]

RECURSIVE mappingsOf(_, _, _)
mappingsOf(emails, i, m) ==
  IF i > Len(emails) THEN m
  ELSE mappingsOf(emails, i + 1, MapSet(m, emails[i].referenceId, emails[i].id))

createSummary(emails, response, t) ==
  [id |-> "summary-" \o ToString(t),
   generatedAt |-> t,
   totalEmails |-> Len(emails),
   unreadCount |-> Cardinality({i \in 1..Len(emails) : emails[i].isUnread}),
   executiveSummary |-> Prop(response, "executiveSummary"),
   actionItems |->
     [i \in 1..Len(response.actionItems) |->
        [referenceId |-> Prop(response.actionItems[i], "referenceId"),
         priority |-> Prop(response.actionItems[i], "priority"),
         fromEmail |->
           LET e == findEmail(emails, Prop(response.actionItems[i], "referenceId"))
           IN IF e.found THEN OrElse(e.email.from, "") ELSE ""]],
   informational |->
     [i \in 1..Len(response.informational) |->
        [referenceId |-> Prop(response.informational[i], "referenceId"),
         fromEmail |->
           LET e == findEmail(emails, Prop(response.informational[i], "referenceId"))
           IN IF e.found THEN OrElse(e.email.from, "") ELSE ""]],
   emailMappings |-> mappingsOf(emails, 1, <<>>)]

createEmptySummary(t) ==
  [id |-> "summary-" \o ToString(t),
   generatedAt |-> t,
   totalEmails |-> 0,
   unreadCount |-> 0,
   executiveSummary |-> "No new emails to summarize.",
   actionItems |-> <<>>,
   informational |-> <<>>,
   emailMappings |-> <<>>]

\* buildSummaryPrompt, lines 56 and 63: what one message's plain-text body
\* contributes to the prompt.
BodyLimit == 1000
slice(text, n) == IF Len(text) <= n THEN text ELSE SubSeq(text, 1, n)
bodyExcerpt(plain) ==
  LET body == slice(plain, BodyLimit)
      marker == IF Len(body) >= BodyLimit THEN "..." ELSE ""
  IN [body |-> body,
      marker |-> marker,
      text |-> IF body = "" THEN "" ELSE "Body excerpt:\n" \o body \o marker]
buildSummaryPrompt(bodies) == [i \in 1..Len(bodies) |-> bodyExcerpt(bodies[i])]

\* summarize without its early return for an empty batch.
summarize_AlwaysAsks(emails, llm, t) ==
  LET response == parseJson(llm) IN
  IF ~response.ok THEN [ok |-> FALSE, error |-> response.error, llmCalls |-> 1]
  ELSE IF \/ Missing(response.value, "actionItems")
          \/ Missing(response.value, "informational")
  THEN [ok |-> FALSE, error |-> TypeError("map"), llmCalls |-> 1]
  ELSE [ok |-> TRUE, summary |-> createSummary(emails, response.value, t),
        llmCalls |-> 1]

summarize(emails, llm, t) ==
  IF Len(emails) = 0 THEN [ok |-> TRUE, summary |-> createEmptySummary(t), llmCalls |-> 0]
  ELSE LET response == parseJson(llm) IN
       IF ~response.ok THEN [ok |-> FALSE, error |-> response.error, llmCalls |-> 1]
       ELSE IF \/ Missing(response.value, "actionItems")
               \/ Missing(response.value, "informational")
       THEN [ok |-> FALSE, error |-> TypeError("map"), llmCalls |-> 1]
       ELSE [ok |-> TRUE, summary |-> createSummary(emails, response.value, t),
             llmCalls |-> 1]

\* ================================================================== state
VARIABLES
  config,          \* [dryRun, enableCommandProcessing]
  now,             \* the clock: one instant per event
  files,           \* the summary storage directory: file name -> JSON text
  sent,            \* the user's replies in the Sent folder
  run,             \* number of the agent run in progress
  pc,              \* position of the run in main / processReplyCommands
  emails,          \* generateAndSendSummary: the batch fetched
  summary,         \* generateAndSendSummary: the Summary built from it
  storedSummary,   \* processReplyCommands: the Stored Summary loaded
  emailMappings,   \* processReplyCommands: its token -> provider ID Map
  replies,         \* processReplyCommands: what searchReplies returned
  ri,              \* index of the reply being handled
  commands,        \* executeCommands: its argument
  ci,              \* index of the command being executed
  results,         \* executeCommands: its results so far
  allResults,      \* processReplyCommands: the results accumulated
  calls,           \* the provider and model requests of this run, in order
  outcome,         \* how processReplyCommands ended, and what it returned
  execLog,         \* every command execution that reached the provider
  input            \* the arguments of a function applied on its own

vars == <<config, now, files, sent, run, pc, emails, summary, storedSummary,
          emailMappings, replies, ri, commands, ci, results, allResults,
          calls, outcome, execLog, input>>

envVars == <<config, now, files, sent, run, execLog, input>>
genVars == <<emails, summary>>
intakeVars == <<storedSummary, emailMappings, replies, ri, allResults, outcome>>
execVars == <<commands, ci, results>>

NoOutcome == [kind |-> "none"]
Returned(value) == [kind |-> "returned", value |-> value]
Threw(error) == [kind |-> "threw", error |-> error]

\* ------------------------------------------------------------ the inputs
GmailIds == {"m1", "m2"}

\* What messages.list returns to listRecentEmails.
Listings ==
  {l \in SeqsUpTo([id : GmailIds \cup {Undefined}, from : {"a@x"},
                   unread : BOOLEAN], MaxEmails) :
     \A i, j \in 1..Len(l) : i # j /\ l[i].id # Undefined => l[i].id # l[j].id}

\* What the model answers to the summarization prompt.
\* Its items cite the first token or a token no batch holds.
CitedTokens == {generateReferenceId(0), generateReferenceId(MaxEmails)}
SummaryItems == [referenceId : CitedTokens, priority : {"high"}]
SummaryResponses ==
  [executiveSummary : {"overview"},
   actionItems : SeqsUpTo(SummaryItems, 1),
   informational : SeqsUpTo([referenceId : CitedTokens], 1)]
SummaryLLM ==
  {[kind |-> "api_error"], [kind |-> "not_json"]}
    \cup {[kind |-> "json", value |-> v] : v \in SummaryResponses}

\* What the model answers to the command-parsing prompt for one reply:
\* commands on the first token, which every stored mapping holds, on a
\* token no mapping holds, and of a kind that does not exist.
IntakeParsed ==
  {[type |-> "archive", targetRef |-> generateReferenceId(0)],
   [type |-> "star", targetRef |-> generateReferenceId(MaxEmails)],
   [type |-> "snooze", targetRef |-> generateReferenceId(0)]}
IntakeLLM ==
  {[kind |-> "api_error"], [kind |-> "not_json"]}
    \cup {[kind |-> "json", value |-> [commands |-> c, unrecognized |-> <<>>]] :
            c \in SeqsUpTo(IntakeParsed, MaxCmds)}

ReplyIds == {"r" \o ToString(i) : i \in 1..MaxReplies}
ReplyTexts == {"", "  ", "text"}

Configs == [dryRun : BOOLEAN, enableCommandProcessing : BOOLEAN]

\* The storage directory a run finds: empty, or holding the summary an
\* earlier run stored at instant 0.
EarlierSummaries ==
  {createSummary(listRecentEmails(l),
                 [executiveSummary |-> "overview", actionItems |-> <<>>,
                  informational |-> <<>>], 0) :
     l \in {x \in Listings :
              /\ Len(x) > 0
              /\ \A i \in 1..Len(x) :
                   x[i].unread /\ x[i].id = "m" \o ToString(i)}}
InitialStorage ==
  {<<>>} \cup {storeSummary(<<>>, s, "sent-0", 0) : s \in EarlierSummaries}

\* The replies the user has sent to that summary when the run starts.
InitialSent(dir) ==
  IF DOMAIN dir = {} THEN {{}}
  ELSE {{[id |-> "r" \o ToString(i), sentAt |-> i, text |-> texts[i],
            answers |-> "summary-0"] :
           i \in 1..Len(texts)} : texts \in SeqsUpTo(ReplyTexts, MaxReplies)}

InitLocals ==
  /\ run = 1
  /\ emails = <<>>
  /\ summary = Null
  /\ storedSummary = Null
  /\ emailMappings = <<>>
  /\ replies = <<>>
  /\ ri = 0
  /\ commands = <<>>
  /\ ci = 0
  /\ results = <<>>
  /\ allResults = <<>>
  /\ calls = <<>>
  /\ outcome = NoOutcome
  /\ execLog = {}

\* One run of the agent, in the environment it finds.
Init ==
  /\ config \in Configs
  /\ files \in InitialStorage
  /\ sent \in InitialSent(files)
  /\ now = IF DOMAIN files = {} THEN 0 ELSE 1 + Cardinality(sent)
  /\ pc = "generate"
  /\ input = <<>>
  /\ InitLocals

\* The file-system requests on the Stored-Summary file: storeSummary writes
\* it (line 194), loadLatestSummary reads it (line 211) when the directory
\* lists a .json file.
writeRequests_Twice ==
  <<Call("fs.writeFile", "stored-summary", TRUE),
    Call("fs.writeFile", "stored-summary", TRUE)>>
writeRequests == <<Call("fs.writeFile", "stored-summary", TRUE)>>
readRequests(dir, dirOk) ==
  IF dirOk /\ jsonFilesOf(dir) # {}
  THEN <<Call("fs.readFile", "stored-summary", TRUE)>> ELSE <<>>

\* ------------------------------------------------- main, part_002:33-41
\* generateAndSendSummary, lines 19-33: fetch the batch and summarize it.
\* A rejected request leaves main through its catch: process.exit(1).
FetchAndSummarizeOf(listings, answers) ==
  /\ pc = "generate"
  /\ \E listing \in listings, fetchOk \in BOOLEAN, llm \in answers :
       LET batch == listRecentEmails(listing)
           s == summarize(batch, llm, now)
           fetchCalls ==
             <<Call("messages.list", "recent", fetchOk)>>
               \o (IF fetchOk
                   THEN [i \in 1..Len(batch) |->
                           Call("messages.get", batch[i].id, TRUE)]
                   ELSE <<>>)
           llmCalls == IF s.llmCalls = 1
                       THEN <<Call("llm.complete", "summary", s.ok)>> ELSE <<>>
       IN IF ~fetchOk
          THEN /\ pc' = "exit1"
               /\ calls' = calls \o fetchCalls
               /\ UNCHANGED <<emails, summary, now>>
          ELSE IF Len(batch) = 0
          THEN /\ pc' = IF config.enableCommandProcessing THEN "load" ELSE "exit0"
               /\ calls' = calls \o fetchCalls
               /\ UNCHANGED <<emails, summary, now>>
          ELSE IF ~s.ok
          THEN /\ pc' = "exit1"
               /\ calls' = calls \o fetchCalls \o llmCalls
               /\ UNCHANGED <<emails, summary, now>>
          ELSE /\ pc' = "generated"
               /\ emails' = batch
               /\ summary' = s.summary
               /\ now' = now + 1
               /\ calls' = calls \o fetchCalls \o llmCalls
  /\ UNCHANGED <<config, files, sent, run, execLog, input>>
  /\ UNCHANGED intakeVars
  /\ UNCHANGED execVars
FetchAndSummarize == FetchAndSummarizeOf(Listings, SummaryLLM)

\* GmailClient.sendEmail, line 101, always answering the empty string.
sendEmail_NoId(response) == ""
\* GmailClient.sendEmail, line 101: return response.data.id || ''.
sendEmail(response) == OrElse(Prop(response, "id"), "")

\* What messages.send answers for the summary email: a message record
\* with its id, or one without.
SendResponse(shape) ==
  IF shape = "id"
  THEN [id |-> "sent-" \o ToString(summary.generatedAt), threadId |-> "thread"]
  ELSE [threadId |-> "thread"]

\* generateAndSendSummary, lines 35-59: send the summary email, store it.
SendAndStoreOf(shapes) ==
  /\ pc = "generated"
  /\ IF config.dryRun
     THEN /\ pc' = IF config.enableCommandProcessing THEN "load" ELSE "exit0"
          /\ UNCHANGED <<files, calls>>
     ELSE \E sendOk \in BOOLEAN, shape \in shapes :
            /\ calls' = Append(calls,
                               [api |-> "messages.send", id |-> "summary",
                                ok |-> sendOk,
                                messageId |-> IF sendOk
                                              THEN Prop(SendResponse(shape), "id")
                                              ELSE Undefined])
                          \o (IF sendOk
                              THEN writeRequests
                              ELSE <<>>)
            /\ IF sendOk
               THEN /\ files' = storeSummary(files, summary,
                                             sendEmail(SendResponse(shape)), now)
                    /\ pc' = IF config.enableCommandProcessing THEN "load" ELSE "exit0"
               ELSE /\ pc' = "exit1"
                    /\ UNCHANGED files
  /\ emails' = <<>>
  /\ summary' = Null
  /\ UNCHANGED <<config, now, sent, run, execLog, input>>
  /\ UNCHANGED intakeVars
  /\ UNCHANGED execVars
SendAndStore == SendAndStoreOf({"id"})

\* ------------------------------- CommandHandler.processReplyCommands
\* Lines 20-30: load the latest Stored Summary; none is a normal return.
LoadLatestSummary ==
  /\ pc = "load"
  /\ \E dirOk \in (IF DOMAIN files = {} THEN BOOLEAN ELSE {TRUE}) :
       LET stored == loadLatestSummary(files, dirOk) IN
       /\ calls' = calls \o readRequests(files, dirOk)
       /\ IF stored = Null
          THEN /\ outcome' = Returned(<<>>)
               /\ pc' = "exit0"
               /\ UNCHANGED <<storedSummary, emailMappings>>
          ELSE /\ storedSummary' = stored
               /\ emailMappings' = loadStoredSummary(stored).emailMappings
               /\ pc' = "search"
               /\ UNCHANGED outcome
  /\ UNCHANGED <<replies, ri, allResults>>
  /\ UNCHANGED envVars
  /\ UNCHANGED genVars
  /\ UNCHANGED execVars

\* GmailClient.searchReplies: the replies sent after the summary was
\* generated, as the provider lists them: newest first, at most
\* MaxSearchResults of them.
RECURSIVE NewestFirst(_)
NewestFirst(S) ==
  IF S = {} THEN <<>>
  ELSE LET r == CHOOSE x \in S : \A y \in S : y.sentAt <= x.sentAt
       IN <<[id |-> r.id]>> \o NewestFirst(S \ {r})
Take(s, n) == IF Len(s) <= n THEN s ELSE SubSeq(s, 1, n)
searchReplies(mailbox, afterDate) ==
  Take(NewestFirst({x \in mailbox : x.sentAt > afterDate}), MaxSearchResults)

\* Lines 32-43.
SearchReplies ==
  /\ pc = "search"
  /\ \E ok \in BOOLEAN :
       /\ calls' = Append(calls, Call("messages.list", "replies", ok))
       /\ IF ~ok
          THEN /\ outcome' = Threw("search failed")
               /\ pc' = "exit1"
               /\ UNCHANGED <<replies, ri>>
          ELSE LET found == searchReplies(sent, DateFrom(storedSummary.generatedAt))
               IN
                 IF Len(found) = 0
                 THEN /\ outcome' = Returned(<<>>)
                      /\ pc' = "exit0"
                      /\ UNCHANGED <<replies, ri>>
                 ELSE /\ replies' = found
                      /\ ri' = 1
                      /\ pc' = "reply"
                      /\ UNCHANGED outcome
  /\ UNCHANGED <<storedSummary, emailMappings, allResults>>
  /\ UNCHANGED envVars
  /\ UNCHANGED genVars
  /\ UNCHANGED execVars

getMessageContent(mailbox, id) == (CHOOSE r \in mailbox : r.id = id).text

\* Lines 45-49: the head of the loop over the replies.
GetMessageContent ==
  /\ pc = "reply"
  /\ ri <= Len(replies)
  /\ IF Falsy(replies[ri].id)
     THEN /\ ri' = ri + 1
          /\ UNCHANGED <<pc, calls, outcome>>
     ELSE \E ok \in BOOLEAN :
            /\ calls' = Append(calls, Call("messages.get", replies[ri].id, ok))
            /\ IF ~ok
               THEN /\ outcome' = Threw("get failed")
                    /\ pc' = "exit1"
                    /\ UNCHANGED ri
               ELSE IF trim(getMessageContent(sent, replies[ri].id)) = ""
               THEN /\ ri' = ri + 1
                    /\ UNCHANGED <<pc, outcome>>
               ELSE /\ pc' = "parse"
                    /\ UNCHANGED <<ri, outcome>>
  /\ UNCHANGED <<storedSummary, emailMappings, replies, allResults>>
  /\ UNCHANGED envVars
  /\ UNCHANGED genVars
  /\ UNCHANGED execVars

\* Lines 51-62: parse the reply and resolve its commands.
ParseCommandsOf(answers) ==
  /\ pc = "parse"
  /\ \E llm \in answers :
       LET p == parseCommands(llm) IN
       /\ calls' = Append(calls, Call("llm.complete", replies[ri].id, llm.kind # "api_error"))
       /\ IF ~p.ok
          THEN /\ outcome' = Threw(p.error)
               /\ pc' = "exit1"
               /\ UNCHANGED execVars
          ELSE /\ commands' = resolveCommands(p.commands, emailMappings)
               /\ ci' = 1
               /\ results' = <<>>
               /\ pc' = "exec"
               /\ UNCHANGED outcome
  /\ UNCHANGED <<storedSummary, emailMappings, replies, ri, allResults>>
  /\ UNCHANGED envVars
  /\ UNCHANGED genVars
ParseCommands == ParseCommandsOf(IntakeLLM)

\* --------------------------------------- CommandHandler.executeCommands
\* One turn of the loop of lines 80-83. A rejection that executeCommand
\* lets through leaves executeCommands and processReplyCommands.
ExecuteCommandOf(lists) ==
  /\ pc = "exec"
  /\ ci <= Len(commands)
  /\ LET command == commands[ci]
         oracles == IF Falsy(command.targetGmailId) \/ config.dryRun
                    THEN {[failAt |-> 0, labels |-> <<>>, created |-> NoLabels.created,
                           subject |-> "hello"]}
                    ELSE GatewayOracles(command, lists)
     IN \E gw \in oracles :
          LET r == executeCommand(command, config.dryRun, gw) IN
          /\ calls' = calls \o r.calls
          /\ execLog' = IF Len(r.calls) > 0
                        THEN execLog \cup {[run |-> run, reply |-> replies[ri].id,
                                            index |-> ci,
                                            ref |-> command.targetRef,
                                            target |-> command.targetGmailId,
                                            ok |-> \A i \in 1..Len(r.calls) :
                                                     r.calls[i].ok]}
                        ELSE execLog
          /\ IF r.thrown
             THEN /\ outcome' = Threw(r.result.error)
                  /\ pc' = "exit1"
                  /\ UNCHANGED <<ci, results>>
             ELSE /\ results' = Append(results, r.result)
                  /\ ci' = ci + 1
                  /\ UNCHANGED <<pc, outcome>>
  /\ UNCHANGED <<config, now, files, sent, run, input>>
  /\ UNCHANGED <<storedSummary, emailMappings, replies, ri, allResults, commands>>
  /\ UNCHANGED genVars
ExecuteCommand == ExecuteCommandOf(BasicLabelLists)

\* Line 66: allResults.push(...results).
pushAll_Front(all, rs) == rs \o all
pushAll(all, rs) == all \o rs

\* Lines 85, 65-66: executeCommands returns; its results are accumulated.
ExecuteCommandsReturn ==
  /\ pc = "exec"
  /\ ci > Len(commands)
  /\ allResults' = pushAll(allResults, results)
  /\ ri' = ri + 1
  /\ pc' = "reply"
  /\ UNCHANGED <<storedSummary, emailMappings, replies, outcome, calls>>
  /\ UNCHANGED envVars
  /\ UNCHANGED genVars
  /\ UNCHANGED execVars

\* Lines 69-74 and sendConfirmationEmail.
needsConfirmation_Always(all, dry) == ~dry
needsConfirmation(all, dry) == Len(all) > 0 /\ ~dry
ConfirmAndReturn ==
  /\ pc = "reply"
  /\ ri > Len(replies)
  /\ IF needsConfirmation(allResults, config.dryRun)
     THEN \E ok \in BOOLEAN :
            /\ calls' = Append(calls, Call("messages.send", "confirmation", ok))
            /\ IF ok
               THEN /\ outcome' = Returned(allResults)
                    /\ pc' = "exit0"
               ELSE /\ outcome' = Threw("send failed")
                    /\ pc' = "exit1"
     ELSE /\ outcome' = Returned(allResults)
          /\ pc' = "exit0"
          /\ UNCHANGED calls
  /\ UNCHANGED <<storedSummary, emailMappings, replies, ri, allResults>>
  /\ UNCHANGED envVars
  /\ UNCHANGED genVars
  /\ UNCHANGED execVars

\* ------------------------------------------------------- the environment
\* The scheduler starts the next run of the agent.
NextRun ==
  /\ pc \in {"exit0", "exit1"}
  /\ run < MaxRuns
  /\ run' = run + 1
  /\ pc' = "generate"
  /\ emails' = <<>>
  /\ summary' = Null
  /\ storedSummary' = Null
  /\ emailMappings' = <<>>
  /\ replies' = <<>>
  /\ ri' = 0
  /\ commands' = <<>>
  /\ ci' = 0
  /\ results' = <<>>
  /\ allResults' = <<>>
  /\ calls' = <<>>
  /\ outcome' = NoOutcome
  /\ UNCHANGED <<config, now, files, sent, execLog, input>>

\* Before a run starts the user answers a summary email they received.
UserReply ==
  /\ pc = "generate"
  /\ DOMAIN files # {}
  /\ Cardinality(sent) < MaxReplies
  /\ \E text \in ReplyTexts, f \in DOMAIN files :
       sent' = sent \cup {[id |-> "r" \o ToString(Cardinality(sent) + 1),
                           sentAt |-> now, text |-> text,
                           answers |-> files[f].doc.id]}
  /\ now' = now + 1
  /\ UNCHANGED <<config, files, run, pc, calls, execLog, input>>
  /\ UNCHANGED genVars
  /\ UNCHANGED intakeVars
  /\ UNCHANGED execVars

Next ==
  \/ FetchAndSummarize
  \/ SendAndStore
  \/ LoadLatestSummary
  \/ SearchReplies
  \/ GetMessageContent
  \/ ParseCommands
  \/ ExecuteCommand
  \/ ExecuteCommandsReturn
  \/ ConfirmAndReturn

Spec == Init /\ [][Next]_vars

\* ------------------------------------------------- successive agent runs
\* The scheduler runs the agent again and again; the user replies between
\* runs. Each listing holds one message, and the model reads one archive
\* command out of every reply.
RunsListings == {l \in Listings : Len(l) <= 1 /\ \A i \in 1..Len(l) : l[i].unread}
RunsSummaryLLM ==
  {[kind |-> "json",
    value |-> [executiveSummary |-> "overview", actionItems |-> <<>>,
               informational |-> <<>>]]}
RunsIntakeLLM ==
  {[kind |-> "json",
    value |-> [commands |-> <<[type |-> "archive",
                               targetRef |-> generateReferenceId(0)]>>,
               unrecognized |-> <<>>]]}
RunsFetchAndSummarize == FetchAndSummarizeOf(RunsListings, RunsSummaryLLM)
RunsParseCommands == ParseCommandsOf(RunsIntakeLLM)

InitRuns ==
  /\ config \in {c \in Configs : c.enableCommandProcessing}
  /\ files = <<>>
  /\ sent = {}
  /\ now = 0
  /\ pc = "generate"
  /\ input = <<>>
  /\ InitLocals

NextRuns ==
  \/ RunsFetchAndSummarize
  \/ SendAndStore
  \/ LoadLatestSummary
  \/ SearchReplies
  \/ GetMessageContent
  \/ RunsParseCommands
  \/ ExecuteCommand
  \/ ExecuteCommandsReturn
  \/ ConfirmAndReturn
  \/ NextRun
  \/ UserReply

SpecRuns == InitRuns /\ [][NextRuns]_vars

\* ----------------------------------------------- executeCommands alone
\* One call of executeCommands: any commands of any kind, on a token the
\* mapping holds or on one it does not, in dry-run mode or not.
ExecMapping == <<<<generateReferenceId(0), "m1">>>>
ExecParsed ==
  {[type |-> t, targetRef |-> ref] : t \in CommandType \ {"reply", "forward", "label"},
                                     ref \in {generateReferenceId(0), generateReferenceId(1)}}
    \cup {[type |-> "reply", targetRef |-> ref, content |-> "on my way"] :
            ref \in {generateReferenceId(0), generateReferenceId(1)}}
    \cup {[type |-> "forward", targetRef |-> ref, forwardTo |-> "j@x"] :
            ref \in {generateReferenceId(0), generateReferenceId(1)}}
    \cup {[type |-> "label", targetRef |-> ref, labelName |-> "Later"] :
            ref \in {generateReferenceId(0), generateReferenceId(1)}}

InitExecOf(parsedCommands) ==
  /\ config \in {c \in Configs : c.enableCommandProcessing}
  /\ files = <<>>
  /\ sent = {[id |-> "r1", sentAt |-> 1, text |-> "text", answers |-> "summary-0"]}
  /\ now = 2
  /\ run = 1
  /\ pc = "exec"
  /\ emails = <<>>
  /\ summary = Null
  /\ storedSummary = Null
  /\ emailMappings = ExecMapping
  /\ replies = <<[id |-> "r1"]>>
  /\ ri = 1
  /\ \E parsed \in SeqsUpTo(parsedCommands, MaxCmds) :
       commands = resolveCommands(transformCommands(parsed).commands, emailMappings)
  /\ ci = 1
  /\ results = <<>>
  /\ allResults = <<>>
  /\ calls = <<>>
  /\ outcome = NoOutcome
  /\ execLog = {}
  /\ input = <<>>

InitExec == InitExecOf(ExecParsed)

NextExec ==
  \/ ExecuteCommand
  \/ ExecuteCommandsReturn

SpecExec == InitExec /\ [][NextExec]_vars

\* ------------------------------------------------ label commands alone
\* One call of executeCommands with label commands only, against every
\* label list of LabelLists.
LabelParsed == {c \in ExecParsed : c.type = "label"}
InitLabel == InitExecOf(LabelParsed)
ExecuteLabelCommand == ExecuteCommandOf(LabelLists)

NextLabel ==
  \/ ExecuteLabelCommand
  \/ ExecuteCommandsReturn

SpecLabel == InitLabel /\ [][NextLabel]_vars

\* ------------------------------------- the Stored Summary round trip
\* summaryToStorable, the day's JSON file, loadLatestSummary and
\* loadStoredSummary, applied to any summary and any optional ids.
OptionalIds == {Undefined, "", "id-1"}
InitStore ==
  /\ input \in [summary : {createSummary(listRecentEmails(l),
                                         [executiveSummary |-> "overview",
                                          actionItems |-> <<>>,
                                          informational |-> <<>>], 0) :
                             l \in Listings},
                threadId : OptionalIds,
                messageId : OptionalIds]
  /\ config = [dryRun |-> FALSE, enableCommandProcessing |-> TRUE]
  /\ files = <<>>
  /\ sent = {}
  /\ now = 1
  /\ pc = "store"
  /\ InitLocals

\* storeSummary, lines 190-194, with the ids given.
StoreGiven ==
  /\ pc = "store"
  /\ files' = (getSummaryFileName(now) :>
                 JSONstringify(summaryToStorable(input.summary, input.threadId,
                                                 input.messageId)))
  /\ pc' = "stored"
  /\ UNCHANGED <<config, now, sent, run, execLog, input, calls>>
  /\ UNCHANGED genVars
  /\ UNCHANGED intakeVars
  /\ UNCHANGED execVars

\* loadLatestSummary, then loadStoredSummary (processReplyCommands, 24-30).
LoadGiven ==
  /\ pc = "stored"
  /\ storedSummary' = loadLatestSummary(files, TRUE)
  /\ outcome' = Returned(loadStoredSummary(storedSummary'))
  /\ pc' = "loaded"
  /\ UNCHANGED <<emailMappings, replies, ri, allResults, calls>>
  /\ UNCHANGED envVars
  /\ UNCHANGED genVars
  /\ UNCHANGED execVars

NextStore ==
  \/ StoreGiven
  \/ LoadGiven

SpecStore == InitStore /\ [][NextStore]_vars

\* ------------------------------------------ one reply, parsed and executed
\* processReplyCommands, lines 51-66, on one reply and one answer of the
\* model: well-formed commands, a command of an unknown type, a command
\* without a token, and answers without a list.
ParseParsed ==
  {[type |-> "archive", targetRef |-> generateReferenceId(0)],
   [type |-> "snooze", targetRef |-> generateReferenceId(0)],
   [type |-> "star"]}
ParseAnswers ==
  {[kind |-> "api_error"], [kind |-> "not_json"],
   [kind |-> "json", value |-> [unrecognized |-> <<>>]]}
    \cup {[kind |-> "json", value |-> [commands |-> c, unrecognized |-> <<>>]] :
            c \in SeqsUpTo(ParseParsed, MaxCmds)}
    \cup {[kind |-> "json", value |-> [commands |-> c]] :
            c \in SeqsUpTo(ParseParsed, MaxCmds)}

InitParse ==
  /\ input \in [llm : ParseAnswers]
  /\ config \in {c \in Configs : c.enableCommandProcessing}
  /\ files = <<>>
  /\ sent = {[id |-> "r1", sentAt |-> 1, text |-> "text", answers |-> "summary-0"]}
  /\ now = 2
  /\ run = 1
  /\ pc = "parse"
  /\ emails = <<>>
  /\ summary = Null
  /\ storedSummary = Null
  /\ emailMappings = ExecMapping
  /\ replies = <<[id |-> "r1"]>>
  /\ ri = 1
  /\ commands = <<>>
  /\ ci = 0
  /\ results = <<>>
  /\ allResults = <<>>
  /\ calls = <<>>
  /\ outcome = NoOutcome
  /\ execLog = {}

ParseGiven == ParseCommandsOf({input.llm})

NextParse ==
  \/ ParseGiven
  \/ ExecuteCommand
  \/ ExecuteCommandsReturn

SpecParse == InitParse /\ [][NextParse]_vars

\* --------------------------------------------- parseCommands on its own
\* CommandParser.parseCommands on answers whose commands carry their
\* optional fields, carry them empty, or lack them.
OptionalParsed ==
  {[type |-> "reply", targetRef |-> generateReferenceId(0), content |-> "on my way"],
   [type |-> "reply", targetRef |-> generateReferenceId(0), content |-> ""],
   [type |-> "reply", targetRef |-> generateReferenceId(0)],
   [type |-> "forward", targetRef |-> generateReferenceId(0),
    forwardTo |-> "j@x", note |-> "fyi"],
   [type |-> "forward", targetRef |-> generateReferenceId(0), forwardTo |-> "j@x"],
   [type |-> "forward", targetRef |-> generateReferenceId(0)],
   [type |-> "label", targetRef |-> generateReferenceId(0), labelName |-> "Later"],
   [type |-> "label", targetRef |-> generateReferenceId(0)],
   [type |-> "archive", targetRef |-> generateReferenceId(0)]}
InitTransform ==
  /\ input \in [llm : {[kind |-> "json",
                        value |-> [commands |-> c, unrecognized |-> <<>>]] :
                         c \in SeqsUpTo(OptionalParsed, MaxCmds)}]
  /\ config \in {c \in Configs : c.enableCommandProcessing}
  /\ files = <<>>
  /\ sent = {[id |-> "r1", sentAt |-> 1, text |-> "text", answers |-> "summary-0"]}
  /\ now = 2
  /\ run = 1
  /\ pc = "parse"
  /\ emails = <<>>
  /\ summary = Null
  /\ storedSummary = Null
  /\ emailMappings = ExecMapping
  /\ replies = <<[id |-> "r1"]>>
  /\ ri = 1
  /\ commands = <<>>
  /\ ci = 0
  /\ results = <<>>
  /\ allResults = <<>>
  /\ calls = <<>>
  /\ outcome = NoOutcome
  /\ execLog = {}

NextTransform == ParseGiven
SpecTransform == InitTransform /\ [][NextTransform]_vars

\* ------------------------------------------- buildSummaryPrompt on its own
\* The plain-text bodies of a batch: empty, short, and of lengths around
\* the limit.
RECURSIVE TextOfLength(_)
TextOfLength(n) ==
  IF n = 0 THEN ""
  ELSE IF n % 2 = 0 THEN LET half == TextOfLength(n \div 2) IN half \o half
  ELSE "x" \o TextOfLength(n - 1)
BodyLengths ==
  {0, 1, 2, BodyLimit - 2, BodyLimit - 1, BodyLimit, BodyLimit + 1, 2 * BodyLimit}
Bodies == {TextOfLength(n) : n \in BodyLengths}
InitPrompt ==
  /\ input \in [bodies : SeqsUpTo(Bodies, MaxEmails) \ {<<>>}]
  /\ config = [dryRun |-> FALSE, enableCommandProcessing |-> TRUE]
  /\ files = <<>>
  /\ sent = {}
  /\ now = 0
  /\ pc = "prompt"
  /\ InitLocals

\* EmailSummarizer.summarize, line 47.
BuildSummaryPrompt ==
  /\ pc = "prompt"
  /\ outcome' = Returned(buildSummaryPrompt(input.bodies))
  /\ pc' = "prompted"
  /\ UNCHANGED <<storedSummary, emailMappings, replies, ri, allResults, calls>>
  /\ UNCHANGED envVars
  /\ UNCHANGED genVars
  /\ UNCHANGED execVars

NextPrompt == BuildSummaryPrompt
SpecPrompt == InitPrompt /\ [][NextPrompt]_vars

\* ---------------------------------------------- the summarizer on its own
\* listRecentEmails and EmailSummarizer.summarize applied to a listing and
\* to an answer of the model.
\* Besides the answers of SummaryLLM, answers that lack a field of the
\* summary schema.
IncompleteResponses ==
  {[actionItems |-> <<>>, informational |-> <<>>],
   [executiveSummary |-> "overview", informational |-> <<>>],
   [executiveSummary |-> "overview", actionItems |-> <<>>],
   [executiveSummary |-> "overview",
    actionItems |-> <<[priority |-> "high"]>>, informational |-> <<>>],
   [executiveSummary |-> "overview",
    actionItems |-> <<[referenceId |-> generateReferenceId(0)]>>,
    informational |-> <<>>],
   [executiveSummary |-> "overview",
    actionItems |-> <<>>, informational |-> <<[description |-> "fyi"]>>]}
SummarizeAnswers ==
  SummaryLLM \cup {[kind |-> "json", value |-> v] : v \in IncompleteResponses}
InitSummarize ==
  /\ input \in [listing : Listings, llm : SummarizeAnswers]
  /\ config = [dryRun |-> FALSE, enableCommandProcessing |-> TRUE]
  /\ files = <<>>
  /\ sent = {}
  /\ now = 0
  /\ pc = "list"
  /\ InitLocals

\* GmailClient.listRecentEmails, lines 15-36.
ListRecentEmails ==
  /\ pc = "list"
  /\ emails' = listRecentEmails(input.listing)
  /\ calls' = <<Call("messages.list", "recent", TRUE)>>
                \o [i \in 1..Len(emails') |-> Call("messages.get", emails'[i].id, TRUE)]
  /\ pc' = "summarize"
  /\ UNCHANGED <<summary>>
  /\ UNCHANGED envVars
  /\ UNCHANGED intakeVars
  /\ UNCHANGED execVars

\* EmailSummarizer.summarize, lines 40-51.
Summarize ==
  /\ pc = "summarize"
  /\ LET s == summarize(emails, input.llm, now) IN
       /\ calls' = calls \o (IF s.llmCalls = 1
                              THEN <<Call("llm.complete", "summary", s.ok)>>
                              ELSE <<>>)
       /\ IF s.ok
          THEN /\ summary' = s.summary
               /\ outcome' = Returned(s.summary)
          ELSE /\ outcome' = Threw(s.error)
               /\ UNCHANGED summary
  /\ pc' = "summarized"
  /\ UNCHANGED <<emails>>
  /\ UNCHANGED envVars
  /\ UNCHANGED <<storedSummary, emailMappings, replies, ri, allResults>>
  /\ UNCHANGED execVars

NextSummarize ==
  \/ ListRecentEmails
  \/ Summarize

SpecSummarize == InitSummarize /\ [][NextSummarize]_vars

\* --------------------------------------- generateAndSendSummary on its own
\* One call of generateAndSendSummary, in any configuration, over an empty
\* storage directory or one that holds an earlier summary of the same day;
\* the provider's answer to the send carries a message id or none.
InitGenerate ==
  /\ config \in Configs
  /\ files \in InitialStorage
  /\ sent = {}
  /\ now = IF DOMAIN files = {} THEN 0 ELSE 1
  /\ pc = "generate"
  /\ input = <<>>
  /\ InitLocals

SendAndStoreAny == SendAndStoreOf({"id", "no-id"})

NextGenerate ==
  \/ FetchAndSummarize
  \/ SendAndStoreAny

SpecGenerate == InitGenerate /\ [][NextGenerate]_vars

\* ------------------------------------------- loadLatestSummary on its own
\* The storage directory holds any of: the summary files of the days of the
\* clock, a .json file that is no summary of a day, and files that do not
\* end in .json; at most one of the files is not parsable.
DayStarts == {t \in Instants : t % DayLength = 0}
DayFiles == {getSummaryFileName(t) : t \in DayStarts}
OtherFiles == {"notes.json", "notes.txt", "2025-10-02.json.bak"}
ContentOf(name) ==
  IF name \in DayFiles
  THEN LET t == CHOOSE x \in DayStarts : getSummaryFileName(x) = name
       IN storeSummary(<<>>, createEmptySummary(t), "sent-" \o ToString(t), t)[name]
  ELSE JSONstringify([id |-> name, generatedAt |-> toISOString(0),
                      emailMappings |-> <<>>])
Unparsable == [valid |-> FALSE]
InitLoad ==
  /\ \E names \in SUBSET (DayFiles \cup OtherFiles) :
       \E corrupt \in {c \in SUBSET names : Cardinality(c) <= 1} :
         files = [f \in names |-> IF f \in corrupt THEN Unparsable ELSE ContentOf(f)]
  /\ config = [dryRun |-> FALSE, enableCommandProcessing |-> TRUE]
  /\ sent = {}
  /\ now = MaxRuns + MaxReplies
  /\ pc = "load"
  /\ input = <<>>
  /\ InitLocals

NextLoad ==
  \/ LoadLatestSummary
  \/ SearchReplies

SpecLoad == InitLoad /\ [][NextLoad]_vars

\* ======================================================= Properties
Resolved(command) == ~Falsy(command.targetGmailId)
GatewayRejected(j) == \E e \in execLog : e.index = j /\ ~e.ok
GatewayAccepted(j) == \E e \in execLog : e.index = j /\ e.ok
NoStateChangingCall == \A i \in 1..Len(calls) : calls[i].api \notin StateChanging

\* C1: executeCommands never aborts a batch.  It never raises; result j is
\* the result of command j, in order; a result is a failure when its own
\* gateway call was rejected and a success exactly when its own command was
\* resolved and its own calls (if any were due) were accepted; and once it
\* has returned there are as many results as commands.
C1_BatchNeverAborted ==
  /\ pc # "exit1"
  /\ outcome = NoOutcome
  /\ Len(results) <= Len(commands)
  /\ \A j \in 1..Len(results) :
       /\ results[j].command = commands[j]
       /\ GatewayRejected(j) => ~results[j].success
       /\ results[j].success <=>
            /\ Resolved(commands[j])
            /\ config.dryRun \/ GatewayAccepted(j)
  /\ pc = "reply" => /\ Len(results) = Len(commands)
                     /\ allResults = results

\* A batch of two whose first command was rejected by the gateway and whose
\* second command succeeded.
C1_Witness ==
  /\ pc = "reply"
  /\ Len(commands) = 2
  /\ GatewayRejected(1)
  /\ ~allResults[1].success
  /\ GatewayAccepted(2)
  /\ allResults[2].success

\* C2 as stated: in dry-run mode every command, resolved or not, produces
\* success=true with a detail string, and no state-changing mailbox call is
\* made.
C2_DryRunAnyCommand ==
  config.dryRun =>
    /\ \A j \in 1..Len(results) :
         /\ results[j].success
         /\ "details" \in DOMAIN results[j]
    /\ NoStateChangingCall

\* C2: in dry-run mode every command whose reference token resolved
\* produces success=true with a detail string, whatever its kind, and no
\* mailbox call at all is made for any command.
C2_DryRunResolvedCommand ==
  config.dryRun =>
    /\ \A j \in 1..Len(results) :
         Resolved(results[j].command) =>
           /\ results[j].success
           /\ "details" \in DOMAIN results[j]
           /\ results[j].details = "Dry run - no action taken"
    /\ calls = <<>>

\* A dry run that has executed a resolved delete and an unresolved command.
C2_Witness ==
  /\ config.dryRun
  /\ pc = "reply"
  /\ \E j \in 1..Len(allResults) :
       /\ Resolved(allResults[j].command)
       /\ allResults[j].command.type = "delete"
       /\ allResults[j].success
  /\ \E j \in 1..Len(allResults) : ~Resolved(allResults[j].command)

Dangling(ref) == MapGet(emailMappings, ref) = Undefined
NamesToken(result) ==
  /\ "error" \in DOMAIN result
  /\ result.error = "Could not resolve " \o result.command.targetRef
                      \o " to a Gmail message ID"
UnresolvedReported(rs) ==
  \A j \in 1..Len(rs) :
    Dangling(rs[j].command.targetRef) => ~rs[j].success /\ NamesToken(rs[j])

\* C3: a command whose reference token is not a key of the loaded mapping
\* leaves the resolver with its provider ID unset; its execution yields
\* success=false with an error naming the token; and the pass is not ended
\* by that error.
C3_UnresolvedReference ==
  /\ \A j \in 1..Len(commands) :
       Dangling(commands[j].targetRef) => commands[j].targetGmailId = Undefined
  /\ UnresolvedReported(results)
  /\ UnresolvedReported(allResults)
  /\ outcome.kind = "threw" =>
       \A j \in 1..Len(commands) : outcome.error # UnresolvedError(commands[j])

\* A pass that returned a result for a command whose token was not mapped.
C3_Witness ==
  /\ outcome.kind = "returned"
  /\ \E j \in 1..Len(outcome.value) :
       /\ Dangling(outcome.value[j].command.targetRef)
       /\ ~outcome.value[j].success

ConfirmationCount ==
  Cardinality({i \in 1..Len(calls) :
                 calls[i].api = "messages.send" /\ calls[i].id = "confirmation"})

\* C4: a pass issues at most one confirmation message; it issues one only
\* after the last reply, with at least one result and outside dry-run mode;
\* and a pass that returned issued exactly one if it returned at least one
\* result outside dry-run mode, and none otherwise.
C4_OneConfirmationPerPass ==
  /\ ConfirmationCount <= 1
  /\ ConfirmationCount = 1 =>
       /\ Len(allResults) > 0
       /\ ~config.dryRun
       /\ ri > Len(replies)
  /\ outcome.kind = "returned" =>
       ConfirmationCount =
         IF Len(outcome.value) > 0 /\ ~config.dryRun THEN 1 ELSE 0

\* A pass over two replies that each had a command executed, closed by one
\* confirmation.
C4_Witness ==
  /\ outcome.kind = "returned"
  /\ Len(outcome.value) >= 2
  /\ ConfirmationCount = 1
  /\ \E e1, e2 \in execLog : e1.reply # e2.reply

ParseFailures ==
  {"Claude API error", "Failed to parse JSON from Claude response"}

\* C5: a failure of the model call or of the JSON extraction for one reply
\* does not abort the pass: the pass never ends by raising that failure.
C5_ParseFailureDoesNotAbort ==
  ~(outcome.kind = "threw" /\ outcome.error \in ParseFailures)

\* C6: a command is executed at most once: no later run executes again the
\* command at the same position of the same reply.
C6_ExecutedAtMostOnce ==
  \A e1, e2 \in execLog :
    (e1.reply = e2.reply /\ e1.index = e2.index) => e1.run = e2.run

NoStoredSummary == jsonFilesOf(files) = {}
IntakeCalls ==
  {i \in 1..Len(calls) : calls[i].id \in {"replies", "confirmation"} \cup ReplyIds}

\* C7: with no stored summary the pass returns an empty list of results
\* without raising, and performs no reply search, no model call, no command
\* execution and no confirmation.
C7_NoStoredSummary ==
  NoStoredSummary =>
    /\ pc \notin {"search", "reply", "parse", "exec"}
    /\ outcome \in {NoOutcome, Returned(<<>>)}
    /\ pc = "exit0" /\ config.enableCommandProcessing =>
         outcome = Returned(<<>>)
    /\ IntakeCalls = {}
    /\ execLog = {}
    /\ results = <<>> /\ allResults = <<>>

\* The pass has returned the empty list from an empty storage directory.
C7_Witness ==
  /\ NoStoredSummary
  /\ pc = "exit0"
  /\ outcome = Returned(<<>>)

ItemTokens(s) ==
  {s.actionItems[i].referenceId : i \in 1..Len(s.actionItems)}
    \cup {s.informational[i].referenceId : i \in 1..Len(s.informational)}
MappingKeys(m) == {m[i][1] : i \in 1..Len(m)}

\* C8: every reference token carried by an action item or an informational
\* item of a produced summary is a key of that summary's mapping.
C8_ReferentialIntegrity ==
  pc = "generated" => ItemTokens(summary) \subseteq MappingKeys(summary.emailMappings)

\* C9: the mapping of a summary produced from a batch of N messages has
\* exactly N entries, one per fetched message, keyed by that message's
\* token and valued by that message's provider ID.
C9_MappingComplete ==
  pc = "generated" =>
    /\ Len(summary.emailMappings) = Len(emails)
    /\ Cardinality(MappingKeys(summary.emailMappings)) = Len(emails)
    /\ \A i \in 1..Len(emails) :
         /\ emails[i].id # Undefined
         /\ MapGet(summary.emailMappings, emails[i].referenceId) = emails[i].id
    /\ summary.totalEmails = Len(emails)

\* A summary of a batch of two messages, one of them read, none of them
\* surfaced by the model.
C9_Witness ==
  /\ pc = "generated"
  /\ Len(emails) = 2
  /\ \E i \in 1..2 : ~emails[i].isUnread
  /\ summary.actionItems = <<>> /\ summary.informational = <<>>

SameOptional(o, k, given) ==
  IF given = Undefined THEN k \notin DOMAIN o
  ELSE k \in DOMAIN o /\ o[k] = given

\* C10: storing a summary and loading it back yields a mapping equal, as a
\* set of key-value pairs, to the mapping of the summary; thread and
\* message ids are absent when they were not supplied and equal to the
\* supplied values otherwise.
C10_StoredSummaryRoundTrip ==
  pc = "loaded" =>
    /\ outcome.kind = "returned"
    /\ MapPairs(outcome.value.emailMappings) = MapPairs(input.summary.emailMappings)
    /\ Len(outcome.value.emailMappings) = Len(input.summary.emailMappings)
    /\ SameOptional(outcome.value, "threadId", input.threadId)
    /\ SameOptional(outcome.value, "messageId", input.messageId)
    /\ DOMAIN outcome.value \subseteq {"emailMappings", "threadId", "messageId"}

\* A summary of two messages stored with an empty thread id and no message
\* id, and loaded back.
C10_Witness ==
  /\ pc = "loaded"
  /\ Len(input.summary.emailMappings) = 2
  /\ input.threadId = ""
  /\ input.messageId = Undefined
  /\ "messageId" \notin DOMAIN outcome.value

\* The token format: EMAIL- and the number n in at least three digits.
Token(n) ==
  "EMAIL-" \o (IF n < 10 THEN "00" ELSE IF n < 100 THEN "0" ELSE "")
           \o ToString(n)
Listed == {i \in 1..Len(input.listing) : input.listing[i].id # Undefined}

GivenCommands == input.llm.value.commands
HasUnknownType ==
  /\ input.llm.kind = "json"
  /\ ~Missing(input.llm.value, "commands")
  /\ \E i \in 1..Len(GivenCommands) : GivenCommands[i].type \notin CommandType
FirstUnknownType ==
  GivenCommands[CHOOSE i \in 1..Len(GivenCommands) :
                  /\ GivenCommands[i].type \notin CommandType
                  /\ \A k \in 1..(i - 1) : GivenCommands[k].type \in CommandType].type

\* C12: when the model's answer for a reply holds a command of an unknown
\* type, parseCommands raises and returns no command list: no command of
\* that reply, not even a well-formed one listed before the unknown one,
\* is resolved or executed, and no result is produced for it.
C12_UnknownTypeAbortsReply ==
  HasUnknownType =>
    /\ pc \in {"parse", "exit1"}
    /\ commands = <<>> /\ results = <<>> /\ allResults = <<>>
    /\ execLog = {}
    /\ \A i \in 1..Len(calls) : calls[i].api = "llm.complete"
    /\ pc = "exit1" =>
         outcome = Threw("Unknown command type: " \o FirstUnknownType)

\* The answer lists a well-formed archive and then a command of an unknown
\* type; parsing has raised.
C12_Witness ==
  /\ HasUnknownType
  /\ Len(GivenCommands) = 2
  /\ GivenCommands[1].type = "archive"
  /\ pc = "exit1"
  /\ outcome.kind = "threw"

ItemsLack(items, field) == \E i \in 1..Len(items) : Missing(items[i], field)
ViolatesSummaryContract ==
  \/ input.llm.kind = "not_json"
  \/ /\ input.llm.kind = "json"
     /\ \/ \E f \in {"executiveSummary", "actionItems", "informational"} :
             Missing(input.llm.value, f)
        \/ /\ ~Missing(input.llm.value, "actionItems")
           /\ \/ ItemsLack(input.llm.value.actionItems, "referenceId")
              \/ ItemsLack(input.llm.value.actionItems, "priority")
        \/ /\ ~Missing(input.llm.value, "informational")
           /\ ItemsLack(input.llm.value.informational, "referenceId")

\* C13: when the model's answer to the summarization prompt is not JSON or
\* lacks a required field (executiveSummary, actionItems, informational,
\* an item's referenceId or priority), summarize surfaces an error to its
\* caller and produces no Summary.
C13_ContractViolationSurfaced ==
  (pc = "summarized" /\ Len(emails) > 0 /\ ViolatesSummaryContract) =>
    /\ outcome.kind = "threw"
    /\ summary = Null

NewCalls == SubSeq(calls', Len(calls) + 1, Len(calls'))
CountOf(cs, apis) == Cardinality({i \in 1..Len(cs) : cs[i].api \in apis})
ExecutesResolved ==
  /\ pc = "exec"
  /\ ci' = ci + 1
  /\ Resolved(commands[ci])
  /\ ~config.dryRun

\* C14 as stated: executing a resolved command outside dry-run mode, with
\* the gateway accepting its requests, performs exactly one state-changing
\* gateway call and returns one result, for every kind of command.
C14_ExactlyOneSideEffect ==
  [][(ExecutesResolved /\ results'[ci].success) =>
       /\ Len(results') = Len(results) + 1
       /\ CountOf(NewCalls, StateChanging) = 1]_vars

\* C14: executing a resolved command outside dry-run mode returns one
\* result.  When it succeeds, a command of any kind but label has performed
\* exactly one state-changing call, its last request, on the target
\* message; a label command has performed at most one labels.create and at
\* most one messages.modify, the latter only when the label found or
\* created carries an id.  When it fails, at most one state-changing call
\* (two for label) was attempted.
C14_SideEffectsPerKind ==
  [][ExecutesResolved =>
       /\ Len(results') = Len(results) + 1
       /\ results'[ci].command = commands[ci]
       /\ IF commands[ci].type # "label"
          THEN /\ CountOf(NewCalls, StateChanging) <= 1
               /\ results'[ci].success =>
                    /\ CountOf(NewCalls, StateChanging) = 1
                    /\ NewCalls[Len(NewCalls)].api \in StateChanging
                    /\ NewCalls[Len(NewCalls)].id = commands[ci].targetGmailId
          ELSE /\ CountOf(NewCalls, {"labels.create"}) <= 1
               /\ CountOf(NewCalls, {"messages.modify"}) <= 1
               /\ CountOf(NewCalls, StateChanging \ {"labels.create", "messages.modify"}) = 0]_vars

\* A label command that succeeded after creating the label and applying it:
\* two state-changing calls.
C14_Witness ==
  /\ pc = "reply"
  /\ ~config.dryRun
  /\ Len(commands) = 1
  /\ commands[1].type = "label"
  /\ allResults[1].success
  /\ CountOf(calls, StateChanging) = 2

StartsWithFwd(subject) == Len(subject) >= 4 /\ SubSeq(subject, 1, 4) = "Fwd:"
ForwardSends ==
  {i \in 2..Len(calls) :
     /\ "subject" \in DOMAIN calls[i]
     /\ calls[i].api = "messages.send"
     /\ calls[i - 1].api = "messages.get"}

\* C15: a forward composes the subject "Fwd: <original subject>" only if
\* the original subject does not already start with "Fwd:", and leaves a
\* subject that already starts with "Fwd:" unchanged.
C15_ForwardSubjectPrefixedOnce ==
  \A i \in ForwardSends :
    calls[i].subject = IF StartsWithFwd(calls[i - 1].subject)
                       THEN calls[i - 1].subject
                       ELSE "Fwd: " \o calls[i - 1].subject

ReplyIndex(id) == CHOOSE k \in 1..Len(replies) : replies[k].id = id
ParsedReplies ==
  SelectSeq(calls, LAMBDA c : c.api = "llm.complete" /\ c.id \in ReplyIds)
InDiscoveryOrder ==
  \A a, b \in 1..Len(ParsedReplies) :
    a < b => ReplyIndex(ParsedReplies[a].id) < ReplyIndex(ParsedReplies[b].id)

\* C17: the replies are handled in the order the search returned them;
\* the commands of a reply are executed one at a time in their order,
\* result k being the result of command k; the results of a reply are
\* appended, in that order, after the results of the replies before it;
\* and what processReplyCommands returns is that flat sequence.
C17_ResultsInOrder ==
  [][/\ (pc = "exec" /\ ci' = ci + 1) =>
          /\ Len(results) = ci - 1
          /\ SubSeq(results', 1, ci - 1) = results
          /\ Len(results') = ci
          /\ results'[ci].command = commands[ci]
          /\ \A i \in 1..Len(NewCalls) : NewCalls[i].id = commands[ci].targetGmailId
          /\ allResults' = allResults
     /\ (pc = "exec" /\ pc' = "reply") =>
          /\ Len(results) = Len(commands)
          /\ allResults' = allResults \o results
          /\ ri' = ri + 1
     /\ pc # "exec" => allResults' = allResults
     /\ ri' \in {ri, ri + 1}
     /\ InDiscoveryOrder'
     /\ outcome'.kind = "returned" => outcome'.value = allResults']_vars

\* A pass over two replies returned three or more results.
C17_Witness ==
  /\ outcome.kind = "returned"
  /\ Len(ParsedReplies) = 2
  /\ Len(outcome.value) >= 3
  /\ \E j \in 1..(Len(outcome.value) - 1) :
       outcome.value[j].command.type # outcome.value[j + 1].command.type

NewSummaryStored ==
  \E i \in 1..Len(calls) :
    calls[i].api = "messages.send" /\ calls[i].id = "summary" /\ calls[i].ok
ParsedReply(id) == \E i \in 1..Len(calls) : calls[i].api = "llm.complete" /\ calls[i].id = id

\* C18: in a run that generated and stored a new summary and then
\* completed command intake, every non-blank reply the user had sent to the
\* previous summary before the run started has been parsed for commands.
C18_PendingRepliesProcessed ==
  (/\ pc = "exit0"
   /\ config.enableCommandProcessing
   /\ NewSummaryStored
   /\ outcome.kind = "returned") =>
    \A r \in sent : trim(r.text) # "" => ParsedReply(r.id)

AnsweredMappings(replyId) ==
  {files[f].doc.emailMappings :
     f \in {g \in DOMAIN files :
              \E r \in sent : r.id = replyId /\ r.answers = files[g].doc.id}}

\* C19: a command is executed only against the provider message its token
\* denotes in the summary the reply answers: whenever that summary is
\* still stored, the target of an executed command is the value of its
\* token in that summary's mapping.
C19_ResolvedAgainstAnsweredSummary ==
  \A e \in execLog :
    \A m \in AnsweredMappings(e.reply) : e.target = Prop(m, e.ref)

Rejected(cs) == {i \in 1..Len(cs) : ~cs[i].ok}

\* C20: no retries.  While a resolved command is executed outside dry-run
\* mode, a rejected request is the last request of that command and no
\* operation is requested more often than the command needs it (the two
\* reads of a reply, one request of each other kind); the rejection is
\* turned into a result with success=false and the rejection's message as
\* error text; and execution goes on with the next command.
C20_NoRetries ==
  [][ExecutesResolved =>
       /\ Rejected(NewCalls) \subseteq {Len(NewCalls)}
       /\ \A api \in {NewCalls[i].api : i \in 1..Len(NewCalls)} :
            CountOf(NewCalls, {api}) <=
              (IF api = "messages.get" /\ commands[ci].type = "reply" THEN 2 ELSE 1)
       /\ Rejected(NewCalls) # {} =>
            /\ ~results'[ci].success
            /\ results'[ci].error = "gateway error: " \o NewCalls[Len(NewCalls)].api
       /\ Rejected(NewCalls) = {} => results'[ci].success
       /\ pc' = "exec"
       /\ outcome' = NoOutcome]_vars

\* The send of a forward was rejected after its read; the command after it
\* was executed and succeeded.
C20_Witness ==
  /\ pc = "reply"
  /\ Len(commands) = 2
  /\ commands[1].type = "forward"
  /\ ~allResults[1].success
  /\ allResults[1].error = "gateway error: messages.send"
  /\ allResults[2].success
  /\ Len(calls) >= 3

ConfirmationRequested ==
  \E i \in 1..Len(calls) :
    calls[i].api = "messages.send" /\ calls[i].id = "confirmation"
ConfirmationSent ==
  \E i \in 1..Len(calls) :
    calls[i].api = "messages.send" /\ calls[i].id = "confirmation" /\ calls[i].ok
PassEnded == pc \in {"exit0", "exit1"}

\* C21: executed commands are always reported.  Outside dry-run mode, a
\* pass in which at least one command has been executed against the
\* gateway does not end, normally or by a failure while handling a later
\* reply, without the confirmation having been handed to the gateway; and
\* when the gateway accepted it, the pass returns the results of the
\* executed commands.
C21_ExecutedCommandsReported ==
  (PassEnded /\ ~config.dryRun /\ execLog # {}) =>
    /\ ConfirmationRequested
    /\ ConfirmationSent =>
         /\ outcome.kind = "returned"
         /\ \A e \in execLog :
              \E j \in 1..Len(outcome.value) :
                outcome.value[j].command.targetRef = e.ref

Requests(api, id) == {i \in 1..Len(calls) : calls[i].api = api /\ calls[i].id = id}
GenerationRequests ==
  Requests("messages.list", "recent") \cup Requests("llm.complete", "summary")
    \cup Requests("messages.send", "summary")
    \cup Requests("fs.writeFile", "stored-summary")
IntakeRequests ==
  Requests("fs.readFile", "stored-summary") \cup Requests("messages.list", "replies")
    \cup Requests("messages.send", "confirmation")
    \cup {i \in 1..Len(calls) : calls[i].id \in ReplyIds}
CommandRequests ==
  {i \in 1..Len(calls) :
     calls[i].id \in GmailIds /\ calls[i].api \in StateChanging \cup {"labels.list"}}
AtMostOnce(S) == Cardinality(S) <= 1

WhiteSpaceOnly(text) == \A i \in 1..Len(text) : SubSeq(text, i, i) = " "
Blank(id) == WhiteSpaceOnly(getMessageContent(sent, id))
Found == {replies[k].id : k \in 1..Len(replies)}

\* C23: a reply whose extracted text is empty or only white space is
\* skipped silently: no model call is made for it, no command is parsed or
\* executed for it and it contributes no result; the pass goes on with the
\* next reply; and a pass in which every reply found is of this kind sends
\* no confirmation and returns the empty sequence of results.
C23_BlankReplySkipped ==
  /\ \A id \in Found :
       Blank(id) =>
         /\ ~ParsedReply(id)
         /\ \A e \in execLog : e.reply # id
         /\ pc \in {"parse", "exec"} => replies[ri].id # id
  /\ (\A id \in Found : Blank(id)) =>
       /\ commands = <<>> /\ results = <<>> /\ allResults = <<>>
       /\ ~ConfirmationRequested
       /\ outcome.kind = "returned" => outcome.value = <<>>
       /\ outcome.kind = "threw" => outcome.error \in {"search failed", "get failed"}
       /\ (pc = "reply" /\ ri > 1) =>
            calls[Len(calls)] = Call("messages.get", replies[ri - 1].id, TRUE)

\* A pass found two replies, one empty and one of white space only, and
\* returned no result.
C23_Witness ==
  /\ Len(replies) = 2
  /\ \E a, b \in sent : a.text = "" /\ b.text = "  "
  /\ pc = "exit0"
  /\ outcome = Returned(<<>>)
  /\ Cardinality({i \in 1..Len(calls) : calls[i].api = "messages.get"
                                         /\ calls[i].id \in ReplyIds}) = 2


JsonNames == {f \in DOMAIN files : endsWith(f, ".json")}
Greatest(names) == CHOOSE f \in names : \A g \in names \ {f} : LexLess(g, f)
DayOfFile(name) == CHOOSE t \in DayStarts : getSummaryFileName(t) = name

\* C24: loadLatestSummary returns the parsed content of the file whose name
\* is lexicographically greatest among the files of the storage directory
\* that end in .json, and nothing when there is none or that file is not
\* parsable; when the .json files are the summaries of calendar days, it is
\* the summary of the latest of those days; files not ending in .json have
\* no influence.
C24_LatestByFileName ==
  pc # "load" =>
    /\ JsonNames = {} => storedSummary = Null
    /\ JsonNames # {} =>
         /\ \A g \in JsonNames \ {Greatest(JsonNames)} : LexLess(g, Greatest(JsonNames))
         /\ storedSummary = IF files[Greatest(JsonNames)].valid
                            THEN files[Greatest(JsonNames)].doc ELSE Null
         /\ JsonNames \subseteq DayFiles =>
              \A g \in JsonNames : DayOfFile(g) <= DayOfFile(Greatest(JsonNames))
         /\ (JsonNames \subseteq DayFiles /\ storedSummary # Null) =>
              \A g \in JsonNames :
                DayOfFile(g) <= DateFrom(storedSummary.generatedAt)

\* The directory holds the summaries of September 30th and October 1st and
\* two files that do not end in .json; the summary of October 1st was loaded.
C24_Witness ==
  /\ pc = "search"
  /\ JsonNames = {"2025-09-30.json", "2025-10-01.json"}
  /\ {"notes.txt", "2025-10-02.json.bak"} \subseteq DOMAIN files
  /\ storedSummary = files["2025-10-01.json"].doc


UpperChar(c) ==
  CASE c = "a" -> "A" [] c = "e" -> "E" [] c = "l" -> "L" [] c = "r" -> "R"
    [] c = "t" -> "T" [] c = "w" -> "W" [] OTHER -> c
SameIgnoringCase(a, b) ==
  /\ Len(a) = Len(b)
  /\ \A i \in 1..Len(a) : UpperChar(SubSeq(a, i, i)) = UpperChar(SubSeq(b, i, i))
Matching(listed, name) ==
  {k \in 1..Len(listed) :
     "name" \in DOMAIN listed[k] /\ SameIgnoringCase(listed[k].name, name)}
ExecutesLabel == ExecutesResolved /\ commands[ci].type = "label"
Positions(cs, api) == {i \in 1..Len(cs) : cs[i].api = api}

\* C25: for a label command the gateway first lists the labels and looks
\* the name up among them without regard to case; it creates the named
\* label exactly when the list was obtained and no listed label matches,
\* so a matching label is never created again; and it applies a label to
\* the message only after the lookup and, where one was due, the creation
\* have succeeded: the first matching label when there is one, the label
\* created otherwise.
C25_LabelLookedUpThenCreated ==
  [][ExecutesLabel =>
       LET cs == NewCalls
           name == commands[ci].labelName
           matches == Matching(cs[1].listed, name)
           creates == Positions(cs, "labels.create")
           applies == Positions(cs, "messages.modify")
       IN /\ Len(cs) >= 1 /\ cs[1].api = "labels.list"
          /\ Positions(cs, "labels.list") = {1}
          /\ ~cs[1].ok => Len(cs) = 1
          /\ cs[1].ok =>
               /\ creates = IF matches = {} THEN {2} ELSE {}
               /\ \A c \in creates : cs[c].label = name /\ cs[c].id = commands[ci].targetGmailId
               /\ \A a \in applies :
                    /\ a = Len(cs)
                    /\ a = IF matches = {} THEN 3 ELSE 2
                    /\ \A i \in 1..(a - 1) : cs[i].ok
                    /\ cs[a].id = commands[ci].targetGmailId
                    /\ matches # {} =>
                         cs[a].label =
                           cs[1].listed[CHOOSE k \in matches : \A j \in matches : k <= j].id
                    /\ matches = {} => cs[a].label = "L9"
               /\ Cardinality(applies) <= 1]_vars

\* The list held the label under another spelling ("LATER" for "Later"),
\* behind a label of another name: nothing was created and the listed
\* label was applied.
C25_Witness ==
  /\ pc = "reply"
  /\ Len(commands) = 1 /\ commands[1].type = "label"
  /\ Len(calls) = 2
  /\ Len(calls[1].listed) = 2
  /\ calls[1].listed[2].name = "LATER"
  /\ calls[2].api = "messages.modify" /\ calls[2].label = "L1" /\ calls[2].ok
  /\ allResults[1].success


\* C26: a label command is reported with success=true only if the label
\* was applied to its target: whenever executeCommand returns success for a
\* label command outside dry-run mode, the command has made an accepted
\* messages.modify request adding a label to the target message.
C26_LabelSuccessMeansApplied ==
  [][(ExecutesLabel /\ results'[ci].success) =>
       \E i \in 1..Len(NewCalls) :
         /\ NewCalls[i].api = "messages.modify"
         /\ NewCalls[i].id = commands[ci].targetGmailId
         /\ NewCalls[i].ok]_vars


SummarySends(cs) ==
  {i \in 1..Len(cs) : cs[i].api = "messages.send" /\ cs[i].id = "summary"}
Writes(cs) == Positions(cs, "fs.writeFile")

\* C27: generateAndSendSummary writes the Stored Summary only after the
\* summary email was sent successfully, as the next thing it does, into
\* the file of the day, leaving every other file alone; the file records
\* the summary's id, its mapping and the message id of that send (the
\* empty string when the provider returned none).  When the batch is empty,
\* in dry-run mode, or when fetching, summarizing or sending fails, no file
\* is written or overwritten and no summary email is sent after the
\* failure.
C27_StoredOnlyAfterSend ==
  [][/\ (files' # files \/ Writes(NewCalls) # {}) =>
          /\ pc = "generated" /\ ~config.dryRun /\ Len(emails) > 0
          /\ Len(NewCalls) = 2
          /\ SummarySends(NewCalls) = {1} /\ NewCalls[1].ok
          /\ Writes(NewCalls) = {2}
          /\ DOMAIN files' = DOMAIN files \cup {getSummaryFileName(now)}
          /\ \A f \in DOMAIN files \ {getSummaryFileName(now)} : files'[f] = files[f]
          /\ LET doc == files'[getSummaryFileName(now)].doc
             IN /\ doc.id = summary.id
                /\ doc.generatedAt = toISOString(summary.generatedAt)
                /\ doc.emailMappings = ObjectFromEntries(summary.emailMappings)
                /\ "messageId" \in DOMAIN doc
                /\ doc.messageId = OrElse(NewCalls[1].messageId, "")
     /\ (pc = "generated" /\ config.dryRun) => NewCalls = <<>>
     /\ pc = "generate" => SummarySends(NewCalls) = {}
     /\ (pc = "generate" /\ pc' # "generated") =>
          \/ ~NewCalls[Len(NewCalls)].ok
          \/ NewCalls = <<Call("messages.list", "recent", TRUE)>>
     /\ (\E i \in 1..Len(NewCalls) : ~NewCalls[i].ok) =>
          /\ ~NewCalls[Len(NewCalls)].ok
          /\ pc' = "exit1"
     /\ \A i, j \in 1..Len(calls') :
          (i < j /\ ~calls'[i].ok) => j \notin SummarySends(calls')]_vars

\* The directory held an earlier summary; the new summary was sent and then
\* stored with the message id of its send.
C27_Witness ==
  /\ pc \in {"load", "exit0"}
  /\ Len(calls) >= 2
  /\ calls[Len(calls)].api = "fs.writeFile"
  /\ calls[Len(calls) - 1].messageId = "sent-1"
  /\ getSummaryFileName(0) \in DOMAIN files
  /\ \E f \in DOMAIN files :
       files[f].doc.id = "summary-1" /\ files[f].doc.messageId = "sent-1"


ExecutesUnresolved ==
  /\ pc = "exec"
  /\ ci' = ci + 1
  /\ ~Resolved(commands[ci])

\* C28: executing a command whose provider ID is unset makes no request to
\* the gateway, of any kind, in dry-run mode and outside it alike: the
\* request log, the mailbox and the stored files are as they were, and the
\* command's result is a failure.
C28_UnresolvedMakesNoCall ==
  [][ExecutesUnresolved =>
       /\ calls' = calls
       /\ execLog' = execLog
       /\ sent' = sent
       /\ files' = files
       /\ Len(results') = Len(results) + 1
       /\ ~results'[ci].success
       /\ pc' = "exec"]_vars

\* Outside dry-run mode an unresolved delete was executed before a
\* resolved command: the only requests are those of the second command.
C28_Witness ==
  /\ pc = "reply"
  /\ ~config.dryRun
  /\ Len(commands) = 2
  /\ commands[1].type = "delete" /\ ~Resolved(commands[1])
  /\ ~allResults[1].success
  /\ Resolved(commands[2]) /\ allResults[2].success
  /\ Len(calls) >= 1
  /\ \A i \in 1..Len(calls) : calls[i].id = commands[2].targetGmailId


Given(j, field) == Prop(GivenCommands[j], field)
Defaulted(j, field) ==
  commands[j][field] = IF Given(j, field) \in {Undefined, ""} THEN "" ELSE Given(j, field)
Parsed == pc = "exec" /\ Len(commands) = Len(GivenCommands)

\* C29 as stated: for every parsed command each optional field missing
\* from the model's JSON (content of reply, forwardTo and note of forward,
\* labelName of label) is the empty string in the resulting Command, and a
\* missing optional field never makes the parse fail.
C29_OptionalFieldsDefaultEmpty ==
  pc # "parse" =>
    /\ Parsed
    /\ \A j \in 1..Len(commands) :
         /\ commands[j].type = "reply" => Defaulted(j, "content")
         /\ commands[j].type = "forward" =>
              Defaulted(j, "forwardTo") /\ Defaulted(j, "note")
         /\ commands[j].type = "label" => Defaulted(j, "labelName")

\* C29: for every parsed command a missing or empty content of a reply,
\* forwardTo of a forward and labelName of a label is the empty string in
\* the resulting Command, and a field that is given is kept; the note of a
\* forward is passed on as it is, so a missing note stays undefined; the
\* command keeps its type, its token and its position; and a missing
\* optional field never makes the parse fail.
C29_OptionalFieldsNormalized ==
  pc # "parse" =>
    /\ Parsed
    /\ outcome = NoOutcome
    /\ \A j \in 1..Len(commands) :
         /\ commands[j].type = Given(j, "type")
         /\ commands[j].targetRef = Given(j, "targetRef")
         /\ commands[j].type = "reply" => Defaulted(j, "content")
         /\ commands[j].type = "forward" =>
              /\ Defaulted(j, "forwardTo")
              /\ commands[j].note = Given(j, "note")
         /\ commands[j].type = "label" => Defaulted(j, "labelName")

\* A reply without content and a forward without recipient and note were
\* parsed: content and recipient are empty strings, the note is undefined.
C29_Witness ==
  /\ Parsed
  /\ Len(commands) = 2
  /\ commands[1].type = "reply" /\ Missing(GivenCommands[1], "content")
  /\ commands[1].content = ""
  /\ commands[2].type = "forward" /\ Missing(GivenCommands[2], "forwardTo")
  /\ Missing(GivenCommands[2], "note")
  /\ commands[2].forwardTo = "" /\ commands[2].note = Undefined


IsPrefix(a, b) == Len(a) <= Len(b) /\ SubSeq(b, 1, Len(a)) = a

\* C30: in the summarization prompt each message contributes at most the
\* first 1000 characters of its plain-text body, and the ellipsis marker
\* follows them if and only if the body is longer than 1000 characters: a
\* body of 1000 characters or fewer is included whole, with no marker.
C30_EllipsisIffLonger ==
  pc = "prompted" =>
    \A i \in 1..Len(input.bodies) :
      LET plain == input.bodies[i]
          excerpt == outcome.value[i]
      IN /\ Len(excerpt.body) <= BodyLimit
         /\ IsPrefix(excerpt.body, plain)
         /\ Len(plain) <= BodyLimit => excerpt.body = plain
         /\ excerpt.marker = IF Len(plain) > BodyLimit THEN "..." ELSE ""


====
